---- MODULE Spec2Model ----
(***************************************************************************)
(* Model of the YouTubeMusicPlayer component                               *)
(* (src/src/app/components/youtubeMusicPlayer.tsx): the playlist, the      *)
(* playback position, the play mode, the shuffle history, the three        *)
(* localStorage entries and the completion-polling interval.               *)
(*                                                                         *)
(* Every handler is one action: the handler body, the render it causes     *)
(* and the effects of that render (the save effect and the interval        *)
(* effect) happen in the same step.  Mounting takes two steps, because     *)
(* the effects of the first render run on the default state before the     *)
(* state set by the load effect is rendered.                               *)
(***************************************************************************)
EXTENDS Integers, Sequences, FiniteSets, TLC

\* ----------------------------------------------------------------- bounds
MaxLen == 3        \* longest playlist the add button is pressed on
MaxClock == 2      \* readings of Date.now() range over 1..MaxClock

\* currentTrackIndex === null
NULL == -1

\* ------------------------------------------------------------ text helpers
\* Strings are sequences of one-character strings.

IsSpace(c) == c \in {" ", "\t"}

RECURSIVE TrimStart(_)
TrimStart(s) ==
    IF s = <<>> THEN <<>>
    ELSE IF IsSpace(Head(s)) THEN TrimStart(Tail(s)) ELSE s

RECURSIVE TrimEnd(_)
TrimEnd(s) ==
    IF s = <<>> THEN <<>>
    ELSE IF IsSpace(s[Len(s)]) THEN TrimEnd(SubSeq(s, 1, Len(s) - 1)) ELSE s

\* String.prototype.trim
Trim(s) == TrimEnd(TrimStart(s))

\* The alternatives of the regular expression of extractVideoId, in the
\* order of the alternation.  "ANY" is the unescaped dot of "youtu.be".
Markers ==
    << <<"y","o","u","t","u","ANY","b","e","/">>,
       <<"v","/">>,
       <<"e","/">>,
       <<"e","m","b","e","d","/">>,
       <<"w","a","t","c","h","?","v","=">>,
       <<"w","a","t","c","h","?","f","e","a","t","u","r","e","=",
         "p","l","a","y","e","r","_","e","m","b","e","d","d","e","d","&","v","=">> >>

\* marker m matches the text s at position i (1-based)
MatchesAt(s, i, m) ==
    /\ i + Len(m) - 1 <= Len(s)
    /\ \A k \in 1..Len(m) : m[k] = "ANY" \/ s[i + k - 1] = m[k]

MaxOf(S) == CHOOSE x \in S : \A y \in S : y <= x
MinOf(S) == CHOOSE x \in S : \A y \in S : x <= y

\* length of the longest run of characters outside [#&?] starting at c
RECURSIVE CaptureLen(_, _)
CaptureLen(s, c) ==
    IF c > Len(s) \/ s[c] \in {"#", "&", "?"} THEN 0
    ELSE 1 + CaptureLen(s, c + 1)

\* extractVideoId: the greedy leading .* puts the alternation at the last
\* position where one of its alternatives matches; the captured group is
\* the run of characters outside [#&?] that follows; the result is the
\* group when it has 11 characters and null (the empty sequence) otherwise.
extractVideoId(url) ==
    LET starts == {i \in 1..Len(url) :
                      \E j \in 1..Len(Markers) : MatchesAt(url, i, Markers[j])}
    IN IF starts = {} THEN <<>>
       ELSE LET i == MaxOf(starts)
                j == MinOf({k \in 1..Len(Markers) : MatchesAt(url, i, Markers[k])})
                c == i + Len(Markers[j])
                n == CaptureLen(url, c)
            IN IF n = 11 THEN SubSeq(url, c, c + 10) ELSE <<>>

\* ------------------------------------------------------------------ inputs
VideoIdA == <<"A","B","C","D","E","F","G","H","I","J","K">>
ShortLinkPrefix == <<"y","o","u","t","u",".","b","e","/">>

UrlShortLink == ShortLinkPrefix \o VideoIdA
UrlTooShort == ShortLinkPrefix \o <<"A","B","C">>
UrlNoMarker == <<"a","b","c">>
UrlPadded == <<" ">> \o UrlShortLink \o <<" ">>
UrlBlank == <<" ", " ">>

\* what the user may have typed in the url field and the title field
UrlInputs == {UrlBlank, UrlShortLink, UrlTooShort, UrlNoMarker, UrlPadded}
TitleInputs == {<<" ">>, <<" ", "s">>}

\* extractVideoId and trim on the inputs, evaluated once
VideoIdOf == [url \in UrlInputs |-> extractVideoId(url)]
Trimmed == [text \in UrlInputs \cup TitleInputs |-> Trim(text)]

ErrEmptyField == "EmptyField"
ErrInvalidUrl == "InvalidUrl"
NoError == "null"

\* ----------------------------------------------------------------- storage
\* A storage entry is <<>> (getItem returns null) or <<text>>.
NoItem == <<>>
Item(text) == <<text>>

\* JSON.stringify(playlist): the text of a JSON array of the tracks
JSONstringify(list) == [kind |-> "array", items |-> list]
\* JSON.parse succeeds on the text of an array and throws on anything else
JSONparses(text) == text.kind = "array"
JSONparse(text) == text.items

Digit(d) == <<"0","1","2","3","4","5","6","7","8","9">>[d + 1]
DigitValue(c) == CHOOSE d \in 0..9 : Digit(d) = c
IsDigit(c) == \E d \in 0..9 : Digit(d) = c

\* String(n) for an integer n
RECURSIVE NatToString(_)
NatToString(n) ==
    IF n < 10 THEN <<Digit(n)>> ELSE NatToString(n \div 10) \o <<Digit(n % 10)>>
StringOf(n) == IF n < 0 THEN <<"-">> \o NatToString(0 - n) ELSE NatToString(n)

\* the value of the longest prefix of digits of s, read after acc
RECURSIVE DigitsValue(_, _)
DigitsValue(s, acc) ==
    IF s = <<>> \/ ~IsDigit(Head(s)) THEN acc
    ELSE DigitsValue(Tail(s), 10 * acc + DigitValue(Head(s)))

\* Number.parseInt(text, 10): leading white space, an optional sign, then
\* digits; [nan |-> TRUE] when no digit follows
parseInt(text) ==
    LET t == TrimStart(text)
        neg == t # <<>> /\ Head(t) = "-"
        body == IF t # <<>> /\ Head(t) \in {"-", "+"} THEN Tail(t) ELSE t
    IN IF body = <<>> \/ ~IsDigit(Head(body))
       THEN [nan |-> TRUE, value |-> 0]
       ELSE [nan |-> FALSE,
             value |-> IF neg THEN 0 - DigitsValue(body, 0) ELSE DigitsValue(body, 0)]

PlayModes == {"none", "repeat-all", "shuffle"}

\* entries something other than the save effect may leave in localStorage:
\* a playlist text that JSON.parse rejects, the empty string, no entry
PlaylistTexts == {Item([kind |-> "garbage", items |-> <<>>]),
                  Item([kind |-> "empty", items |-> <<>>]),
                  NoItem}

\* "abc", "-1", "9" (no playlist of the model is that long), "1x", no entry
IndexTexts == {Item(<<"a", "b", "c">>), Item(<<"-", "1">>), Item(<<"9">>),
               Item(<<"1", "x">>), NoItem}

\* a text that is no play mode, the empty string, no entry
ModeTexts == {Item("loop"), Item(""), NoItem}

\* ------------------------------------------------------------------- state
VARIABLES
    playlist,           \* useState<PlaylistItem[]>: sequence of tracks
    currentTrackIndex,  \* useState<number | null>: 0-based index or NULL
    isPlaying,          \* useState(false)
    playMode,           \* useState<PlayMode>("none")
    error,              \* useState<string | null>
    playedIndices,      \* playedIndicesRef.current
    playerRef,          \* playerRef.current !== null
    checkIntervalRef,   \* "null", "live" or "cleared" (a cleared timer id)
    liveTimers,         \* number of intervals set and not cleared
    storage,            \* the three localStorage entries
    now,                \* the latest reading of Date.now()
    phase,              \* "unmounted", "hydrating" or "mounted"
    lastOp,             \* the handler that ran last, with its inputs
    prev,               \* the rendered state that handler ran on
    runStart,           \* the state before the first playNext of the run
    advRun,             \* positions set by the playNext calls since then
    modeRun,            \* the play modes before and after the
                        \* togglePlayMode calls made in a row
    endRun              \* the track-ended signals handled in a row: their
                        \* number and isPlaying before the first

vars == <<playlist, currentTrackIndex, isPlaying, playMode, error,
          playedIndices, playerRef, checkIntervalRef, liveTimers, storage,
          now, phase, lastOp, prev, runStart, advRun, modeRun,
          endRun>>

\* the rendered state a handler closes over
Rendered ==
    [playlist |-> playlist, cur |-> currentTrackIndex, playing |-> isPlaying,
     mode |-> playMode, played |-> playedIndices, error |-> error]

\* the part of the rendered state kept in prev
Snapshot ==
    [playlist |-> playlist, cur |-> currentTrackIndex, playing |-> isPlaying,
     mode |-> playMode, played |-> playedIndices]

\* the values of the useState and useRef initialisers
Defaults ==
    [playlist |-> <<>>, cur |-> NULL, playing |-> FALSE,
     mode |-> "none", played |-> <<>>, error |-> NoError]

EmptyStorage == [playlist |-> NoItem, index |-> NoItem, mode |-> NoItem]

\* sto is what the three getItem calls of the load effect returned
Op(name) == [op |-> name, id |-> 0, index |-> 0, pick |-> 0, code |-> 0,
             pick2 |-> 0, title |-> <<>>, url |-> <<>>, sto |-> EmptyStorage]

\* the value of the const currentVideo is an item of the playlist, so the
\* YouTube widget is rendered
HasCurrentVideo(st) == st.cur # NULL /\ st.cur < Len(st.playlist)

\* ---------------------------------------------------------------- handlers
\* Each handler is an operator from the rendered state (and the handler's
\* inputs) to the state after the setState calls and ref writes it makes.

\* playlist.findIndex((video) => video.id === idToRemove), -1 when absent
findIndex(list, id) ==
    LET hits == {i \in 1..Len(list) : list[i].id = id}
    IN IF hits = {} THEN -1 ELSE MinOf(hits) - 1

\* playlist.filter((video) => video.id !== idToRemove)
RECURSIVE filterOut(_, _)
filterOut(list, id) ==
    IF list = <<>> THEN <<>>
    ELSE IF Head(list).id = id THEN filterOut(Tail(list), id)
         ELSE <<Head(list)>> \o filterOut(Tail(list), id)

\* playedIndicesRef.current.filter((idx) => idx !== indexToRemove)
\*                         .map((idx) => (idx > indexToRemove ? idx - 1 : idx))
RECURSIVE reindex(_, _)
reindex(played, removed) ==
    IF played = <<>> THEN <<>>
    ELSE IF Head(played) = removed THEN reindex(Tail(played), removed)
         ELSE <<IF Head(played) > removed THEN Head(played) - 1 ELSE Head(played)>>
              \o reindex(Tail(played), removed)

Includes(seq, x) == \E k \in 1..Len(seq) : seq[k] = x

\* addVideo without the selection of the first track
addVideo_noAutoSelect(st, title, url, newId) ==
    IF Trimmed[url] = <<>> \/ Trimmed[title] = <<>>
    THEN [st EXCEPT !.error = ErrEmptyField]
    ELSE IF VideoIdOf[url] = <<>>
    THEN [st EXCEPT !.error = ErrInvalidUrl]
    ELSE LET item == [id |-> newId, youtubeId |-> VideoIdOf[url],
                      title |-> Trimmed[title], originalUrl |-> Trimmed[url]]
         IN [st EXCEPT !.error = NoError,
                       !.playlist = Append(st.playlist, item)]

\* addVideo without the check of the extracted video id
addVideo_noUrlCheck(st, title, url, newId) ==
    IF Trimmed[url] = <<>> \/ Trimmed[title] = <<>>
    THEN [st EXCEPT !.error = ErrEmptyField]
    ELSE LET item == [id |-> newId, youtubeId |-> VideoIdOf[url],
                      title |-> Trimmed[title], originalUrl |-> Trimmed[url]]
             first == Len(st.playlist) = 0 /\ st.cur = NULL
         IN [st EXCEPT !.error = NoError,
                       !.playlist = Append(st.playlist, item),
                       !.cur = IF first THEN 0 ELSE @,
                       !.playing = IF first THEN TRUE ELSE @]

\* addVideo that selects the new track whenever no track is selected
addVideo_selectsWhenNone(st, title, url, newId) ==
    IF Trimmed[url] = <<>> \/ Trimmed[title] = <<>>
    THEN [st EXCEPT !.error = ErrEmptyField]
    ELSE IF VideoIdOf[url] = <<>>
    THEN [st EXCEPT !.error = ErrInvalidUrl]
    ELSE LET item == [id |-> newId, youtubeId |-> VideoIdOf[url],
                      title |-> Trimmed[title], originalUrl |-> Trimmed[url]]
             first == st.cur = NULL
         IN [st EXCEPT !.error = NoError,
                       !.playlist = Append(st.playlist, item),
                       !.cur = IF first THEN Len(st.playlist) ELSE @,
                       !.playing = IF first THEN TRUE ELSE @]

\* addVideo, with newId the reading of Date.now()
addVideo(st, title, url, newId) ==
    IF Trimmed[url] = <<>> \/ Trimmed[title] = <<>>
    THEN [st EXCEPT !.error = ErrEmptyField]
    ELSE IF VideoIdOf[url] = <<>>
    THEN [st EXCEPT !.error = ErrInvalidUrl]
    ELSE LET item == [id |-> newId, youtubeId |-> VideoIdOf[url],
                      title |-> Trimmed[title], originalUrl |-> Trimmed[url]]
             first == Len(st.playlist) = 0 /\ st.cur = NULL
         IN [st EXCEPT !.error = NoError,
                       !.playlist = Append(st.playlist, item),
                       !.cur = IF first THEN 0 ELSE @,
                       !.playing = IF first THEN TRUE ELSE @]

\* addVideo passes both checks and reads Date.now()
addVideoOk(title, url) ==
    Trimmed[url] # <<>> /\ Trimmed[title] # <<>> /\ VideoIdOf[url] # <<>>

\* selectVideo with the index compared by <= to the length
selectVideo_upToLength(st, index) ==
    IF index >= 0 /\ index <= Len(st.playlist)
    THEN [st EXCEPT !.cur = index,
                    !.playing = TRUE,
                    !.played = IF st.mode = "shuffle" THEN <<index>> ELSE @]
    ELSE st

\* selectVideo that leaves the shuffle history as it is
selectVideo_keepsHistory(st, index) ==
    IF index >= 0 /\ index < Len(st.playlist)
    THEN [st EXCEPT !.cur = index, !.playing = TRUE]
    ELSE st

selectVideo(st, index) ==
    IF index >= 0 /\ index < Len(st.playlist)
    THEN [st EXCEPT !.cur = index,
                    !.playing = TRUE,
                    !.played = IF st.mode = "shuffle" THEN <<index>> ELSE @]
    ELSE st

\* playlist.map((_, i) => i).filter((i) => !playedIndicesRef.current.includes(i))
availableIndices(st) ==
    {i \in 0..(Len(st.playlist) - 1) : ~Includes(st.played, i)}

\* the indices Math.random may select in playNext (0 stands for "no draw")
playNextPicks(st) ==
    IF Len(st.playlist) = 0 \/ st.mode # "shuffle" THEN {0}
    ELSE IF availableIndices(st) = {} THEN 0..(Len(st.playlist) - 1)
    ELSE availableIndices(st)

\* playNext without the halt at the end of the playlist
playNext_noHalt(st, pick) ==
    IF Len(st.playlist) = 0 THEN st
    ELSE IF st.mode = "shuffle"
    THEN LET kept == IF availableIndices(st) = {} THEN <<>> ELSE st.played
         IN selectVideo([st EXCEPT !.played = Append(kept, pick)], pick)
    ELSE selectVideo(st, (IF st.cur = NULL THEN 0 ELSE st.cur + 1) % Len(st.playlist))

\* playNext with the halt in every linear mode
playNext_haltAnyMode(st, pick) ==
    IF Len(st.playlist) = 0 THEN st
    ELSE IF st.mode = "shuffle"
    THEN LET kept == IF availableIndices(st) = {} THEN <<>> ELSE st.played
         IN selectVideo([st EXCEPT !.played = Append(kept, pick)], pick)
    ELSE LET nextIndex == (IF st.cur = NULL THEN 0 ELSE st.cur + 1) % Len(st.playlist)
         IN IF nextIndex = 0 /\ st.cur # NULL /\ Len(st.playlist) > 1
            THEN [st EXCEPT !.playing = FALSE, !.cur = NULL]
            ELSE selectVideo(st, nextIndex)

\* playNext with the halt also on a playlist of one track
playNext_haltSingle(st, pick) ==
    IF Len(st.playlist) = 0 THEN st
    ELSE IF st.mode = "shuffle"
    THEN LET kept == IF availableIndices(st) = {} THEN <<>> ELSE st.played
         IN selectVideo([st EXCEPT !.played = Append(kept, pick)], pick)
    ELSE LET nextIndex == (IF st.cur = NULL THEN 0 ELSE st.cur + 1) % Len(st.playlist)
         IN IF st.mode = "none" /\ nextIndex = 0 /\ st.cur # NULL
            THEN [st EXCEPT !.playing = FALSE, !.cur = NULL]
            ELSE selectVideo(st, nextIndex)

\* playNext that returns early on an empty playlist only outside shuffle
\* mode
playNext_drawsOnEmpty(st, pick) ==
    IF Len(st.playlist) = 0 /\ st.mode # "shuffle" THEN st
    ELSE IF st.mode = "shuffle"
    THEN LET kept == IF availableIndices(st) = {} THEN <<>> ELSE st.played
         IN selectVideo([st EXCEPT !.played = Append(kept, pick)], pick)
    ELSE LET nextIndex == (IF st.cur = NULL THEN 0 ELSE st.cur + 1) % Len(st.playlist)
         IN IF st.mode = "none" /\ nextIndex = 0 /\ st.cur # NULL /\ Len(st.playlist) > 1
            THEN [st EXCEPT !.playing = FALSE, !.cur = NULL]
            ELSE selectVideo(st, nextIndex)

\* playNext, with pick the index drawn in shuffle mode
playNext(st, pick) ==
    IF Len(st.playlist) = 0 THEN st
    ELSE IF st.mode = "shuffle"
    THEN LET kept == IF availableIndices(st) = {} THEN <<>> ELSE st.played
         IN selectVideo([st EXCEPT !.played = Append(kept, pick)], pick)
    ELSE LET nextIndex == (IF st.cur = NULL THEN 0 ELSE st.cur + 1) % Len(st.playlist)
         IN IF st.mode = "none" /\ nextIndex = 0 /\ st.cur # NULL /\ Len(st.playlist) > 1
            THEN [st EXCEPT !.playing = FALSE, !.cur = NULL]
            ELSE selectVideo(st, nextIndex)

\* playPrevious that stays at the first track
playPrevious_noWrap(st) ==
    IF Len(st.playlist) = 0 THEN st
    ELSE selectVideo(st, IF st.cur = NULL \/ st.cur = 0 THEN 0 ELSE st.cur - 1)

playPrevious(st) ==
    IF Len(st.playlist) = 0 THEN st
    ELSE selectVideo(st, IF st.cur = NULL THEN 0
                         ELSE (st.cur - 1 + Len(st.playlist)) % Len(st.playlist))

\* togglePlayMode that leaves shuffle for repeat-all
togglePlayMode_skipNone(st) ==
    IF st.mode = "none" THEN [st EXCEPT !.mode = "repeat-all"]
    ELSE IF st.mode = "repeat-all" THEN [st EXCEPT !.mode = "shuffle", !.played = <<>>]
    ELSE [st EXCEPT !.mode = "repeat-all"]

togglePlayMode(st) ==
    IF st.mode = "none" THEN [st EXCEPT !.mode = "repeat-all"]
    ELSE IF st.mode = "repeat-all" THEN [st EXCEPT !.mode = "shuffle", !.played = <<>>]
    ELSE [st EXCEPT !.mode = "none"]

\* removeVideo that does not mark playback inactive when it removes the
\* last track
removeVideo_keepsPlaying(st, idToRemove) ==
    LET indexToRemove == findIndex(st.playlist, idToRemove)
        newPlaylist == filterOut(st.playlist, idToRemove)
    IN IF indexToRemove = -1 THEN st
       ELSE [st EXCEPT
               !.playlist = newPlaylist,
               !.cur = IF st.cur = indexToRemove
                       THEN (IF Len(newPlaylist) = 0 THEN NULL
                             ELSE IF indexToRemove < Len(newPlaylist) THEN indexToRemove
                             ELSE Len(newPlaylist) - 1)
                       ELSE IF st.cur # NULL /\ indexToRemove < st.cur THEN st.cur - 1
                       ELSE @,
               !.playing = IF st.cur = indexToRemove /\ Len(newPlaylist) # 0
                           THEN TRUE
                           ELSE @,
               !.played = reindex(st.played, indexToRemove)]

removeVideo(st, idToRemove) ==
    LET indexToRemove == findIndex(st.playlist, idToRemove)
        newPlaylist == filterOut(st.playlist, idToRemove)
    IN IF indexToRemove = -1 THEN st
       ELSE [st EXCEPT
               !.playlist = newPlaylist,
               !.cur = IF st.cur = indexToRemove
                       THEN (IF Len(newPlaylist) = 0 THEN NULL
                             ELSE IF indexToRemove < Len(newPlaylist) THEN indexToRemove
                             ELSE Len(newPlaylist) - 1)
                       ELSE IF st.cur # NULL /\ indexToRemove < st.cur THEN st.cur - 1
                       ELSE @,
               !.playing = IF st.cur = indexToRemove
                           THEN Len(newPlaylist) # 0
                           ELSE @,
               !.played = reindex(st.played, indexToRemove)]

\* onPlayerEnd that hands every end of a track to playNext
onPlayerEnd_alwaysNext(st, pick) == playNext(st, pick)

onPlayerEnd(st, pick) ==
    IF st.mode = "repeat-all" \/ st.mode = "shuffle" THEN playNext(st, pick)
    ELSE LET nextIndex == IF st.cur # NULL THEN st.cur + 1 ELSE 0
         IN IF nextIndex < Len(st.playlist) THEN playNext(st, pick)
            ELSE [st EXCEPT !.playing = FALSE]

\* onPlayerStateChange that goes on to the first track after the last one
onPlayerStateChange_wraps(st, code, pick) ==
    IF code = 0 THEN playNext_noHalt(st, pick)
    ELSE IF code = 1 THEN [st EXCEPT !.playing = TRUE]
    ELSE IF code = 2 THEN [st EXCEPT !.playing = FALSE]
    ELSE st

onPlayerStateChange(st, code, pick) ==
    IF code = 0
    THEN IF st.mode = "repeat-all" \/ st.mode = "shuffle" THEN playNext(st, pick)
         ELSE LET nextIndex == IF st.cur # NULL THEN st.cur + 1 ELSE 0
              IN IF nextIndex < Len(st.playlist) THEN playNext(st, pick)
                 ELSE [st EXCEPT !.playing = FALSE]
    ELSE IF code = 1 THEN [st EXCEPT !.playing = TRUE]
    ELSE IF code = 2 THEN [st EXCEPT !.playing = FALSE]
    ELSE st

\* the widget reports state 0 once: its onStateChange prop and then its
\* onEnd prop are called before the next render, so both handlers close
\* over the same rendered state st, the second finds in playedIndicesRef
\* what the first wrote, and of two calls of a setter the last one wins
\* (both handlers take the same branch and call the same setters)
endedPicks2(st, pick) ==
    playNextPicks([st EXCEPT !.played = onPlayerStateChange(st, 0, pick).played])

widgetEnded(st, pick, pick2) ==
    onPlayerEnd([st EXCEPT !.played = onPlayerStateChange(st, 0, pick).played], pick2)

onPlayerPlay(st) == [st EXCEPT !.playing = TRUE]
onPlayerPause(st) == [st EXCEPT !.playing = FALSE]

\* the callback of setInterval in startStateCheck: code is getPlayerState(),
\* nearEnd is duration > 0 && currentTime >= duration - 1
intervalCallback(st, hasPlayer, code, nearEnd, pick) ==
    IF hasPlayer /\ st.playing /\ (code = 0 \/ nearEnd)
    THEN IF st.mode = "repeat-all" \/ st.mode = "shuffle" THEN playNext(st, pick)
         ELSE LET nextIndex == IF st.cur # NULL THEN st.cur + 1 ELSE 0
              IN IF nextIndex < Len(st.playlist) THEN playNext(st, pick)
                 ELSE [st EXCEPT !.playing = FALSE]
    ELSE st

\* ----------------------------------------------------------------- effects
\* the save effect with the position tested for truthiness
saveEffect_falsyIndex(st) ==
    [playlist |-> Item(JSONstringify(st.playlist)),
     index |-> Item(IF st.cur # NULL /\ st.cur # 0 THEN StringOf(st.cur) ELSE <<>>),
     mode |-> Item(st.mode)]

\* the save effect: the three setItem calls
saveEffect(st) ==
    [playlist |-> Item(JSONstringify(st.playlist)),
     index |-> Item(IF st.cur # NULL THEN StringOf(st.cur) ELSE <<>>),
     mode |-> Item(st.mode)]

\* if (savedPlaylist): the entry exists and is not the empty string
HasPlaylistText(sto) == sto.playlist # NoItem /\ sto.playlist[1].kind # "empty"

\* the load effect with the position compared by <= to the length
loadEffect_indexUpToLength(sto) ==
    IF HasPlaylistText(sto) /\ ~JSONparses(sto.playlist[1]) THEN Defaults
    ELSE LET list == IF HasPlaylistText(sto) THEN JSONparse(sto.playlist[1]) ELSE <<>>
             index == IF sto.index # NoItem THEN parseInt(sto.index[1])
                      ELSE [nan |-> TRUE, value |-> 0]
             indexOk == /\ sto.index # NoItem
                        /\ ~index.nan
                        /\ index.value >= 0
                        /\ HasPlaylistText(sto)
                        /\ Len(list) >= index.value
             modeOk == /\ sto.mode # NoItem
                       /\ sto.mode[1] # ""
                       /\ sto.mode[1] \in PlayModes
         IN [Defaults EXCEPT !.playlist = list,
                             !.cur = IF indexOk THEN index.value ELSE @,
                             !.mode = IF modeOk THEN sto.mode[1] ELSE @]

\* the load effect: the state set from the three entries; a throw of
\* JSON.parse leaves the effect before any setter was called
loadEffect(sto) ==
    IF HasPlaylistText(sto) /\ ~JSONparses(sto.playlist[1]) THEN Defaults
    ELSE LET list == IF HasPlaylistText(sto) THEN JSONparse(sto.playlist[1]) ELSE <<>>
             index == IF sto.index # NoItem THEN parseInt(sto.index[1])
                      ELSE [nan |-> TRUE, value |-> 0]
             indexOk == /\ sto.index # NoItem
                        /\ ~index.nan
                        /\ index.value >= 0
                        /\ HasPlaylistText(sto)
                        /\ Len(list) > index.value
             modeOk == /\ sto.mode # NoItem
                       /\ sto.mode[1] # ""
                       /\ sto.mode[1] \in PlayModes
         IN [Defaults EXCEPT !.playlist = list,
                             !.cur = IF indexOk THEN index.value ELSE @,
                             !.mode = IF modeOk THEN sto.mode[1] ELSE @]

\* the dependencies of startStateCheck (its own and those of playNext and
\* selectVideo)
checkDeps(st) == <<st.playing, st.mode, st.cur, Len(st.playlist)>>

\* the effect with a startStateCheck that does not clear the interval of
\* the ref before it sets a new one
intervalEffect_noClear(timer, before, after) ==
    IF checkDeps(before) = checkDeps(after) THEN timer
    ELSE IF after.playing THEN [ref |-> "live", live |-> timer.live + 1]
         ELSE [ref |-> IF timer.ref = "null" THEN "null" ELSE "cleared",
               live |-> IF timer.ref = "live" THEN timer.live - 1 ELSE timer.live]

\* the effect on [isPlaying, startStateCheck]: startStateCheck clears the
\* interval of the ref and sets a new one; the else branch clears it
intervalEffect(timer, before, after) ==
    IF checkDeps(before) = checkDeps(after) THEN timer
    ELSE LET cleared == IF timer.ref = "live" THEN timer.live - 1 ELSE timer.live
         IN IF after.playing THEN [ref |-> "live", live |-> cleared + 1]
            ELSE [ref |-> IF timer.ref = "null" THEN "null" ELSE "cleared",
                  live |-> cleared]

\* the cleanup of the unmount effect
unmountCleanup(timer) ==
    [ref |-> IF timer.ref = "null" THEN "null" ELSE "cleared",
     live |-> IF timer.ref = "live" THEN timer.live - 1 ELSE timer.live]

Timer == [ref |-> checkIntervalRef, live |-> liveTimers]

\* ------------------------------------------------------------- transitions
SetState(st) ==
    /\ playlist' = st.playlist
    /\ currentTrackIndex' = st.cur
    /\ isPlaying' = st.playing
    /\ playMode' = st.mode
    /\ playedIndices' = st.played
    /\ error' = st.error

SetTimer(timer) ==
    /\ checkIntervalRef' = timer.ref
    /\ liveTimers' = timer.live

NoRunStart == [cur |-> NULL, played |-> <<>>]

NoEndRun == [active |-> FALSE, n |-> 0]

\* op is a call of onPlayerEnd, of onPlayerStateChange with state 0, of
\* both, or of the interval callback that sees the track ended
IsEndedOp(op) ==
    \/ op.op \in {"onPlayerEnd", "widgetEnded", "intervalCallback"}
    \/ (op.op = "onPlayerStateChange" /\ op.code = 0)

\* a handler ran on the rendered state and left st; the render and its
\* effects follow
Commit(op, st) ==
    /\ SetState(st)
    /\ storage' = IF <<st.playlist, st.cur, st.mode>> = <<playlist, currentTrackIndex, playMode>>
                  THEN storage ELSE saveEffect(st)
    /\ SetTimer(intervalEffect(Timer, Rendered, st))
    /\ lastOp' = op
    /\ prev' = Snapshot
    /\ IF op.op = "playNext"
       THEN IF advRun = <<>> \/ Len(advRun) >= Len(playlist)
            THEN /\ runStart' = [cur |-> currentTrackIndex, played |-> playedIndices]
                 /\ advRun' = <<st.cur>>
            ELSE /\ runStart' = runStart
                 /\ advRun' = Append(advRun, st.cur)
       ELSE /\ runStart' = NoRunStart
            /\ advRun' = <<>>
    /\ endRun' = IF ~IsEndedOp(op) THEN NoEndRun
                 ELSE IF endRun.n = 0 \/ endRun.n >= Len(playlist)
                 THEN [active |-> isPlaying, n |-> 1]
                 ELSE [endRun EXCEPT !.n = @ + 1]
    /\ modeRun' = IF op.op # "togglePlayMode" THEN <<>>
                  ELSE IF modeRun = <<>> \/ Len(modeRun) > Cardinality(PlayModes)
                  THEN <<playMode, st.mode>>
                  ELSE Append(modeRun, st.mode)
    /\ now' = IF op.op = "addVideo" /\ addVideoOk(op.title, op.url) THEN op.id ELSE now
    /\ UNCHANGED phase

Init ==
    /\ playlist = <<>>
    /\ currentTrackIndex = NULL
    /\ isPlaying = FALSE
    /\ playMode = "none"
    /\ playedIndices = <<>>
    /\ error = NoError
    /\ playerRef = FALSE
    /\ checkIntervalRef = "null"
    /\ liveTimers = 0
    /\ storage = EmptyStorage
    /\ now = 1
    /\ phase = "unmounted"
    /\ lastOp = Op("init")
    /\ prev = [playlist |-> <<>>, cur |-> NULL, playing |-> FALSE,
               mode |-> "none", played |-> <<>>]
    /\ runStart = NoRunStart
    /\ advRun = <<>>
    /\ modeRun = <<>>
    /\ endRun = NoEndRun

\* the component is rendered for the first time: the load effect sets the
\* state from storage, then the save effect of this render writes the
\* default state it closes over
Mount ==
    /\ phase = "unmounted"
    /\ SetState(loadEffect(storage))
    /\ storage' = saveEffect(Defaults)
    /\ playerRef' = FALSE
    /\ checkIntervalRef' = "null"
    /\ phase' = "hydrating"
    /\ lastOp' = [Op("mount") EXCEPT !.sto = storage]
    /\ prev' = Snapshot
    /\ runStart' = NoRunStart
    /\ advRun' = <<>>
    /\ modeRun' = <<>>
    /\ endRun' = NoEndRun
    /\ UNCHANGED <<liveTimers, now>>

\* the render of the loaded state without a run of the save effect
Hydrate_noSave ==
    /\ phase = "hydrating"
    /\ SetTimer(intervalEffect(Timer, Defaults, Rendered))
    /\ phase' = "mounted"
    /\ lastOp' = Op("hydrate")
    /\ prev' = Snapshot
    /\ UNCHANGED <<playlist, currentTrackIndex, isPlaying, playMode, error,
                   playedIndices, playerRef, now, runStart, advRun, modeRun,
                   endRun, storage>>

\* the state set by the load effect is rendered; its save effect runs
Hydrate ==
    /\ phase = "hydrating"
    /\ storage' = saveEffect(Rendered)
    /\ SetTimer(intervalEffect(Timer, Defaults, Rendered))
    /\ phase' = "mounted"
    /\ lastOp' = Op("hydrate")
    /\ prev' = Snapshot
    /\ UNCHANGED <<playlist, currentTrackIndex, isPlaying, playMode, error,
                   playedIndices, playerRef, now, runStart, advRun, modeRun,
                   endRun>>

\* the component is discarded (the page is closed or reloaded)
Unmount ==
    /\ phase \in {"hydrating", "mounted"}
    /\ SetState(Defaults)
    /\ SetTimer(unmountCleanup(Timer))
    /\ playerRef' = FALSE
    /\ phase' = "unmounted"
    /\ lastOp' = Op("unmount")
    /\ prev' = Snapshot
    /\ runStart' = NoRunStart
    /\ advRun' = <<>>
    /\ modeRun' = <<>>
    /\ endRun' = NoEndRun
    /\ UNCHANGED <<storage, now>>

\* localStorage belongs to the browser: while no component is mounted one
\* of its three entries is replaced or deleted by something else (another
\* version of the page, the user, the developer tools)
StorageEdited ==
    /\ phase = "unmounted"
    /\ lastOp.op \in {"init", "unmount"}
    /\ \/ \E text \in PlaylistTexts : storage' = [storage EXCEPT !.playlist = text]
       \/ \E text \in IndexTexts : storage' = [storage EXCEPT !.index = text]
       \/ \E text \in ModeTexts : storage' = [storage EXCEPT !.mode = text]
    /\ storage' # storage
    /\ lastOp' = Op("storageEdited")
    /\ UNCHANGED <<playlist, currentTrackIndex, isPlaying, playMode, error,
                   playedIndices, playerRef, checkIntervalRef, liveTimers,
                   now, phase, prev, runStart, advRun, modeRun, endRun>>

\* addVideo reads Date.now(): the reading is the latest one or a later one
AddVideo ==
    /\ phase = "mounted"
    /\ \E title \in TitleInputs, url \in UrlInputs, newId \in now..MaxClock :
         /\ addVideoOk(title, url) => Len(playlist) < MaxLen
         /\ ~addVideoOk(title, url) => newId = now
         /\ Commit([Op("addVideo") EXCEPT !.title = title, !.url = url, !.id = newId],
                   addVideo(Rendered, title, url, newId))
    /\ UNCHANGED playerRef

SelectVideo ==
    /\ phase = "mounted"
    /\ \E index \in -1..MaxLen :
         Commit([Op("selectVideo") EXCEPT !.index = index], selectVideo(Rendered, index))
    /\ UNCHANGED playerRef

PlayNext ==
    /\ phase = "mounted"
    /\ \E pick \in playNextPicks(Rendered) :
         Commit([Op("playNext") EXCEPT !.pick = pick], playNext(Rendered, pick))
    /\ UNCHANGED playerRef

PlayPrevious ==
    /\ phase = "mounted"
    /\ Commit(Op("playPrevious"), playPrevious(Rendered))
    /\ UNCHANGED playerRef

TogglePlayMode ==
    /\ phase = "mounted"
    /\ Commit(Op("togglePlayMode"), togglePlayMode(Rendered))
    /\ UNCHANGED playerRef

RemoveVideo ==
    /\ phase = "mounted"
    /\ \E id \in 1..MaxClock :
         Commit([Op("removeVideo") EXCEPT !.id = id], removeVideo(Rendered, id))
    /\ UNCHANGED playerRef

\* the events of the YouTube widget, which is rendered while currentVideo
\* is an item of the playlist
OnPlayerReady ==
    /\ phase = "mounted"
    /\ HasCurrentVideo(Rendered)
    /\ playerRef' = TRUE
    /\ Commit(Op("onPlayerReady"), Rendered)

OnPlayerPlay ==
    /\ phase = "mounted"
    /\ HasCurrentVideo(Rendered)
    /\ Commit(Op("onPlayerPlay"), onPlayerPlay(Rendered))
    /\ UNCHANGED playerRef

OnPlayerPause ==
    /\ phase = "mounted"
    /\ HasCurrentVideo(Rendered)
    /\ Commit(Op("onPlayerPause"), onPlayerPause(Rendered))
    /\ UNCHANGED playerRef

OnPlayerStateChange ==
    /\ phase = "mounted"
    /\ HasCurrentVideo(Rendered)
    /\ \E code \in {0, 1, 2, 3}, pick \in playNextPicks(Rendered) :
         Commit([Op("onPlayerStateChange") EXCEPT !.code = code, !.pick = pick],
                onPlayerStateChange(Rendered, code, pick))
    /\ UNCHANGED playerRef

OnPlayerEnd ==
    /\ phase = "mounted"
    /\ HasCurrentVideo(Rendered)
    /\ \E pick \in playNextPicks(Rendered) :
         Commit([Op("onPlayerEnd") EXCEPT !.pick = pick], onPlayerEnd(Rendered, pick))
    /\ UNCHANGED playerRef

\* the track of the widget ends: the widget calls onStateChange with
\* state 0 and onEnd for it
WidgetEnded ==
    /\ phase = "mounted"
    /\ HasCurrentVideo(Rendered)
    /\ \E pick \in playNextPicks(Rendered) :
         \E pick2 \in endedPicks2(Rendered, pick) :
            Commit([Op("widgetEnded") EXCEPT !.pick = pick, !.pick2 = pick2],
                   widgetEnded(Rendered, pick, pick2))
    /\ UNCHANGED playerRef

\* a live interval fires and sees the track ended (a firing that does not
\* see it changes nothing)
IntervalCallback ==
    /\ phase = "mounted"
    /\ liveTimers > 0
    /\ playerRef
    /\ isPlaying
    /\ \E code \in {0, 1}, nearEnd \in BOOLEAN, pick \in playNextPicks(Rendered) :
         /\ code = 0 \/ nearEnd
         /\ Commit([Op("intervalCallback") EXCEPT !.code = code, !.pick = pick],
                   intervalCallback(Rendered, playerRef, code, nearEnd, pick))
    /\ UNCHANGED playerRef

Next ==
    \/ Mount
    \/ Hydrate
    \/ Unmount
    \/ StorageEdited
    \/ AddVideo
    \/ SelectVideo
    \/ PlayNext
    \/ PlayPrevious
    \/ TogglePlayMode
    \/ RemoveVideo
    \/ OnPlayerReady
    \/ OnPlayerPlay
    \/ OnPlayerPause
    \/ OnPlayerStateChange
    \/ OnPlayerEnd
    \/ WidgetEnded
    \/ IntervalCallback

Spec == Init /\ [][Next]_vars

\* ------------------------------------------------------------------ claims
Ids(list) == {list[i].id : i \in 1..Len(list)}
NoDuplicateIds(list) == Cardinality(Ids(list)) = Len(list)

InRange(cur, list) == cur = NULL \/ (0 <= cur /\ cur < Len(list))

\* C1: in every reachable state the playback position is none or an index
\* of the playlist, 0 <= position < length(playlist).
C1_PositionInRange == InRange(currentTrackIndex, playlist)

\* C10: in every reachable state no two tracks of the playlist have the
\* same id, also when two adds read the same value of the clock.
C10_UniqueIds == NoDuplicateIds(playlist)

Distinct(seq) == \A i, j \in 1..Len(seq) : i # j => seq[i] # seq[j]

\* C2: in shuffle mode, the playNext calls of a run that starts with an
\* empty shuffle history and is no longer than the playlist select pairwise
\* distinct indices.
C2_ShuffleCycleDistinct ==
    (lastOp.op = "playNext" /\ playMode = "shuffle" /\ runStart.played = <<>>)
        => Distinct(advRun)

\* C3: in mode "none" with more than one track, the k-th playNext of a run
\* that starts at position 0 sets position k and keeps playback active for
\* k < N, and the N-th sets the position to null and playback inactive.
C3_OffAdvanceHalts ==
    (lastOp.op = "playNext" /\ playMode = "none" /\ runStart.cur = 0
        /\ Len(playlist) > 1)
    => /\ \A k \in 1..Len(advRun) :
            advRun[k] = IF k < Len(playlist) THEN k ELSE NULL
       /\ isPlaying = (Len(advRun) < Len(playlist))

C3_Witness ==
    /\ lastOp.op = "playNext" /\ playMode = "none" /\ runStart.cur = 0
    /\ Len(playlist) = MaxLen /\ Len(advRun) = MaxLen
    /\ currentTrackIndex = NULL /\ ~isPlaying

\* C4: in mode "repeat-all" on a non-empty playlist playNext sets the
\* position to (p + 1) mod N (index 0 from null), never to null, and the
\* N-th playNext of a run that starts at position 0 sets position 0.
C4_RepeatAllLoops ==
    (lastOp.op = "playNext" /\ playMode = "repeat-all" /\ Len(playlist) > 0)
    => /\ currentTrackIndex # NULL
       /\ currentTrackIndex = IF prev.cur = NULL THEN 0
                              ELSE (prev.cur + 1) % Len(playlist)
       /\ (runStart.cur = 0 /\ Len(advRun) = Len(playlist)) => currentTrackIndex = 0

C4_Witness ==
    /\ lastOp.op = "playNext" /\ playMode = "repeat-all" /\ runStart.cur = 0
    /\ Len(playlist) = MaxLen /\ Len(advRun) = MaxLen
    /\ currentTrackIndex = 0 /\ prev.cur = MaxLen - 1

\* a signal of the widget or of the interval that the track ended
IsEndedSignal ==
    \/ lastOp.op = "onPlayerEnd"
    \/ lastOp.op = "intervalCallback"
    \/ (lastOp.op = "onPlayerStateChange" /\ lastOp.code = 0)

\* the state is the one playNext leaves when called on prev
LikePlayNext ==
    LET st == playNext(prev, lastOp.pick)
    IN /\ currentTrackIndex = st.cur
       /\ isPlaying = st.playing
       /\ playedIndices = st.played

\* in mode "none" the selected track is the last one (or none is selected
\* and the playlist is empty)
EndedAtLast ==
    /\ prev.mode = "none"
    /\ (IF prev.cur # NULL THEN prev.cur + 1 ELSE 0) >= Len(prev.playlist)

C8_FirstAddSelects ==
    (lastOp.op = "addVideo" /\ extractVideoId(lastOp.url) # <<>>
        /\ Trim(lastOp.url) # <<>> /\ Trim(lastOp.title) # <<>>
        /\ prev.playlist = <<>> /\ prev.cur = NULL)
    => /\ Len(playlist) = 1
       /\ playlist[1].id = lastOp.id
       /\ playlist[1].youtubeId = extractVideoId(lastOp.url)
       /\ currentTrackIndex = 0
       /\ isPlaying

C8_Witness ==
    /\ lastOp.op = "addVideo" /\ prev.playlist = <<>> /\ prev.cur = NULL
    /\ Len(playlist) = 1 /\ currentTrackIndex = 0 /\ isPlaying /\ ~prev.playing

\* the inputs of the last addVideo fail its validation
AddRejected ==
    /\ lastOp.op = "addVideo"
    /\ \/ Trim(lastOp.title) = <<>>
       \/ Trim(lastOp.url) = <<>>
       \/ extractVideoId(lastOp.url) = <<>>

\* C9: addVideo with a blank title or url, or a url without an
\* 11-character video id, sets an error and leaves the playlist, the
\* position, the play mode, the playback-active flag and the shuffle
\* history unchanged.
C9_RejectedAddChangesNothing ==
    AddRejected
    => /\ error \in {ErrEmptyField, ErrInvalidUrl}
       /\ playlist = prev.playlist
       /\ currentTrackIndex = prev.cur
       /\ playMode = prev.mode
       /\ isPlaying = prev.playing
       /\ playedIndices = prev.played

C9_Witness ==
    /\ AddRejected
    /\ lastOp.url = UrlPadded
    /\ Trim(lastOp.title) # <<>>
    /\ error = ErrInvalidUrl
    /\ Len(playlist) > 0

\* the last removeVideo was given the id of the track at index i of the
\* playlist it ran on
RemovedAt(i) ==
    /\ lastOp.op = "removeVideo"
    /\ 0 <= i /\ i < Len(prev.playlist)
    /\ prev.playlist[i + 1].id = lastOp.id

\* C6: removeVideo of the selected track, when the playlist stays
\* non-empty, sets the position to min(removed index, new length - 1) and
\* marks playback active; the track that followed the removed one, or else
\* the new last track, is the current one.
C6_RemoveSelected ==
    (prev.cur # NULL /\ RemovedAt(prev.cur) /\ Len(playlist) > 0)
    => /\ currentTrackIndex = IF prev.cur < Len(playlist) THEN prev.cur
                              ELSE Len(playlist) - 1
       /\ isPlaying
       /\ (prev.cur + 1 < Len(prev.playlist) /\ Len(playlist) = Len(prev.playlist) - 1)
            => playlist[currentTrackIndex + 1] = prev.playlist[prev.cur + 2]

\* C7: removeVideo of a track before the selected one decrements the
\* position by one, the track at the position keeps its id, and the
\* playback-active flag is unchanged.
C7_RemoveBeforeSelected ==
    (prev.cur # NULL /\ prev.cur < Len(prev.playlist)
        /\ \E i \in 0..(prev.cur - 1) : RemovedAt(i))
    => /\ currentTrackIndex = prev.cur - 1
       /\ currentTrackIndex < Len(playlist)
       /\ playlist[currentTrackIndex + 1].id = prev.playlist[prev.cur + 1].id
       /\ isPlaying = prev.playing

\* the playlist, the position and the play mode the load effect sets from
\* the entries sto
Loaded(sto) ==
    LET st == loadEffect(sto)
    IN <<st.playlist, st.cur, st.mode>>

\* C11: for the playlist, the position (null or in range) and the play mode
\* of every reachable state, the load effect of a fresh mount that reads
\* what the save effect wrote sets the same playlist, position and mode.
C11_SaveLoadRoundTrip ==
    InRange(currentTrackIndex, playlist)
    => Loaded(saveEffect(Rendered)) = <<playlist, currentTrackIndex, playMode>>

\* a mount has read the entries a save effect wrote for two tracks, the
\* second one selected, in shuffle mode
C11_Witness ==
    /\ lastOp.op = "mount"
    /\ lastOp.sto = saveEffect(Rendered)
    /\ Len(playlist) = 2 /\ currentTrackIndex = 1 /\ playMode = "shuffle"

\* the entries sto hold the text of a playlist, a position text and a play
\* mode
StoredTriple(sto) ==
    /\ HasPlaylistText(sto) /\ JSONparses(sto.playlist[1])
    /\ sto.index # NoItem
    /\ sto.mode # NoItem /\ sto.mode[1] \in PlayModes

\* the text is the decimal notation of an integer
IsNumberText(text) ==
    ~parseInt(text).nan /\ text = StringOf(parseInt(text).value)

\* the last step was the load effect, which read a stored triple and set
\* the stored playlist and the stored play mode but no position
LoadedWithoutPosition ==
    /\ currentTrackIndex = NULL
    /\ playlist = JSONparse(lastOp.sto.playlist[1])
    /\ playMode = lastOp.sto.mode[1]

\* C12 as stated: the load effect reading a stored position that is not a
\* number, is negative, or is not below the length of the stored playlist
\* sets position null, the stored playlist and the stored play mode.
C12_BadPositionDropped ==
    (lastOp.op = "mount" /\ StoredTriple(lastOp.sto)
        /\ \/ ~IsNumberText(lastOp.sto.index[1])
           \/ parseInt(lastOp.sto.index[1]).value < 0
           \/ parseInt(lastOp.sto.index[1]).value >= Len(JSONparse(lastOp.sto.playlist[1])))
    => LoadedWithoutPosition

\* C12 as amended: the load effect reading a stored position in which
\* parseInt finds no leading integer, or finds a negative one, or one not
\* below the length of the stored playlist, sets position null, the stored
\* playlist and the stored play mode.
C12_UnreadablePositionDropped ==
    (lastOp.op = "mount" /\ StoredTriple(lastOp.sto)
        /\ \/ parseInt(lastOp.sto.index[1]).nan
           \/ parseInt(lastOp.sto.index[1]).value < 0
           \/ parseInt(lastOp.sto.index[1]).value >= Len(JSONparse(lastOp.sto.playlist[1])))
    => LoadedWithoutPosition

\* the load effect has read the position text "abc" next to a playlist of
\* two tracks and the play mode "shuffle"
C12_Witness ==
    /\ lastOp.op = "mount" /\ StoredTriple(lastOp.sto)
    /\ lastOp.sto.index = Item(<<"a", "b", "c">>)
    /\ Len(playlist) = 2 /\ playMode = "shuffle" /\ currentTrackIndex = NULL

\* what each entry of sto yields when it is read on its own: the parsed
\* playlist or the empty one, the stored play mode or "none", and the
\* position parseInt reads if it is an index of that playlist, else null
PlaylistOf(sto) ==
    IF HasPlaylistText(sto) /\ JSONparses(sto.playlist[1])
    THEN JSONparse(sto.playlist[1]) ELSE <<>>

ModeOf(sto) ==
    IF sto.mode # NoItem /\ sto.mode[1] \in PlayModes THEN sto.mode[1] ELSE "none"

PositionOf(sto) ==
    IF sto.index # NoItem /\ ~parseInt(sto.index[1]).nan
        /\ parseInt(sto.index[1]).value >= 0
        /\ parseInt(sto.index[1]).value < Len(PlaylistOf(sto))
    THEN parseInt(sto.index[1]).value ELSE NULL

\* C13: the load effect sets each of playlist, position and play mode from
\* its own entry, an entry that cannot be parsed yields the default of its
\* field only; with a playlist text that does not parse, a valid stored
\* play mode is still set.
C13_FieldsLoadIndependently ==
    lastOp.op = "mount"
    => /\ playlist = PlaylistOf(lastOp.sto)
       /\ currentTrackIndex = PositionOf(lastOp.sto)
       /\ playMode = ModeOf(lastOp.sto)

\* the cycle Off -> RepeatAll -> Shuffle -> Off
NextMode(m) ==
    IF m = "none" THEN "repeat-all" ELSE IF m = "repeat-all" THEN "shuffle" ELSE "none"

\* C14: togglePlayMode moves the play mode one step along none ->
\* repeat-all -> shuffle -> none and leaves the playlist, the position and
\* the playback-active flag unchanged; the third togglePlayMode in a row
\* restores the play mode the first one started from.
C14_ToggleCycles ==
    lastOp.op = "togglePlayMode"
    => /\ playMode = NextMode(prev.mode)
       /\ playlist = prev.playlist
       /\ currentTrackIndex = prev.cur
       /\ isPlaying = prev.playing
       /\ modeRun[Len(modeRun)] = playMode
       /\ Len(modeRun) = 4 => modeRun[4] = modeRun[1]

C14_Witness ==
    /\ lastOp.op = "togglePlayMode"
    /\ Len(modeRun) = 4 /\ modeRun[1] = "repeat-all" /\ playMode = "repeat-all"
    /\ Len(playlist) = 2 /\ currentTrackIndex = 1 /\ isPlaying

\* C15: selectVideo(index) with 0 <= index < length sets the position to
\* index, marks playback active and in shuffle mode sets the shuffle
\* history to exactly <<index>>; with any other index it changes nothing.
C15_SelectTrack ==
    lastOp.op = "selectVideo"
    => IF 0 <= lastOp.index /\ lastOp.index < Len(prev.playlist)
       THEN /\ currentTrackIndex = lastOp.index
            /\ isPlaying
            /\ prev.mode = "shuffle" => playedIndices = <<lastOp.index>>
            /\ playlist = prev.playlist /\ playMode = prev.mode
       ELSE Snapshot = prev

C15_Witness ==
    /\ lastOp.op = "selectVideo" /\ lastOp.index = 1
    /\ prev.mode = "shuffle" /\ prev.played = <<0>> /\ ~prev.playing
    /\ Len(playlist) = 2 /\ currentTrackIndex = 1 /\ isPlaying
    /\ playedIndices = <<1>>

\* C16 as stated: playPrevious on a non-empty playlist sets the position
\* to (p - 1 + length) mod length, with p = 0 when the position is null (so
\* from null it selects length - 1), whatever the play mode.
C16_RetreatWraps ==
    (lastOp.op = "playPrevious" /\ Len(prev.playlist) > 0)
    => currentTrackIndex =
         ((IF prev.cur = NULL THEN 0 ELSE prev.cur) - 1 + Len(prev.playlist))
            % Len(prev.playlist)

\* C16 as amended: playPrevious on a non-empty playlist sets the position
\* to (p - 1 + length) mod length when the position is p, and to 0 when
\* the position is null, whatever the play mode, and marks playback
\* active.
C16_RetreatWrapsOrFirst ==
    (lastOp.op = "playPrevious" /\ Len(prev.playlist) > 0)
    => /\ currentTrackIndex =
            IF prev.cur = NULL THEN 0
            ELSE (prev.cur - 1 + Len(prev.playlist)) % Len(prev.playlist)
       /\ isPlaying
       /\ playMode = prev.mode

\* playPrevious at the first of several tracks has selected the last one
C16_Witness ==
    /\ lastOp.op = "playPrevious"
    /\ prev.cur = 0 /\ Len(prev.playlist) = MaxLen
    /\ currentTrackIndex = MaxLen - 1 /\ playMode = "shuffle"

\* C17: at most one interval of startStateCheck is live in any state, and
\* after the effects of a render have run none is live while isPlaying is
\* false, nor after the unmount.
C17_OnePollingTimer ==
    /\ liveTimers <= 1
    /\ (phase = "mounted" /\ ~isPlaying) => liveTimers = 0
    /\ phase = "unmounted" => liveTimers = 0

\* playback was active with its interval live and the widget paused: the
\* interval is cleared
C17_Witness ==
    /\ lastOp.op = "onPlayerPause"
    /\ prev.playing /\ ~isPlaying
    /\ checkIntervalRef = "cleared" /\ liveTimers = 0

\* C18: the save effect runs after every render that changed the playlist,
\* the position or the play mode, so once the component is mounted and its
\* effects have run the three entries hold exactly the state in memory;
\* the writes follow the renders in order: while the loaded state awaits
\* its render the entries hold the state of the first render, never an
\* earlier one of this mount.
C18_StoredIsCurrent ==
    /\ phase = "mounted" => storage = saveEffect(Rendered)
    /\ phase = "hydrating" => storage = saveEffect(Defaults)

\* removeVideo has changed the playlist and the position and the entries
\* hold the new ones
C18_Witness ==
    /\ lastOp.op = "removeVideo"
    /\ Len(playlist) = 1 /\ Len(prev.playlist) = 2
    /\ currentTrackIndex = 0 /\ prev.cur = 1
    /\ storage = saveEffect(Rendered)
    /\ storage.index = Item(<<"0">>)

\* C19: when the widget reports the end of a track once, and so calls both
\* onStateChange(0) and onEnd, the position, the playback-active flag and
\* the shuffle history are those one track-ended handler alone leaves for
\* some draw: the completion advances the position at most once.
C19_OneAdvancePerCompletion ==
    lastOp.op = "widgetEnded"
    => \E pick \in playNextPicks(prev) :
         /\ currentTrackIndex = onPlayerEnd(prev, pick).cur
         /\ isPlaying = onPlayerEnd(prev, pick).playing
         /\ playedIndices = onPlayerEnd(prev, pick).played

\* playNext ran in shuffle mode on at least two tracks with one selected
ShuffleAdvance ==
    /\ lastOp.op = "playNext"
    /\ prev.mode = "shuffle"
    /\ Len(prev.playlist) >= 2
    /\ prev.cur # NULL

\* C20: in shuffle mode with at least two tracks and a selected
\* track, playNext never selects the index that was selected, in every
\* reachable state.
C20_ShuffleNoImmediateRepeat ==
    ShuffleAdvance => currentTrackIndex # prev.cur

\* every index of the shuffle history is an index of the playlist
HistoryInRange(played, list) ==
    \A k \in 1..Len(played) : 0 <= played[k] /\ played[k] < Len(list)

\* the tracks the shuffle history refers to, in the order of the history
TracksOf(played, list) == [k \in 1..Len(played) |-> list[played[k] + 1]]

\* the tracks of seq other than those removeVideo(id) removes
RECURSIVE Without(_, _)
Without(seq, id) ==
    IF seq = <<>> THEN <<>>
    ELSE IF Head(seq).id = id THEN Without(Tail(seq), id)
         ELSE <<Head(seq)>> \o Without(Tail(seq), id)

\* C21: in every reachable state every index of the shuffle history is an
\* index of the playlist, and after a removeVideo that found its track the
\* history refers to the tracks it referred to before, minus the removed
\* one.
C21_HistoryValid ==
    /\ HistoryInRange(playedIndices, playlist)
    /\ (lastOp.op = "removeVideo" /\ findIndex(prev.playlist, lastOp.id) # -1
          /\ HistoryInRange(prev.played, prev.playlist))
       => TracksOf(playedIndices, playlist)
            = Without(TracksOf(prev.played, prev.playlist), lastOp.id)

\* C22: removeVideo of the only track of the playlist sets the position to
\* null and marks playback inactive.
C22_RemoveOnlyTrack ==
    (lastOp.op = "removeVideo" /\ Len(prev.playlist) = 1
        /\ prev.playlist[1].id = lastOp.id)
    => /\ playlist = <<>>
       /\ currentTrackIndex = NULL
       /\ ~isPlaying

\* C23: in mode "none" on a non-empty playlist, when track-ended signals
\* are handled in a row starting with playback active, playback is
\* inactive once as many signals as the playlist has tracks were handled,
\* and a signal at the last index leaves the position there (it never
\* moves it back to 0).
C23_OffPlaysThroughOnce ==
    (IsEndedOp(lastOp) /\ playMode = "none" /\ Len(playlist) > 0 /\ endRun.active)
    => /\ endRun.n >= Len(playlist) => ~isPlaying
       /\ prev.cur = Len(playlist) - 1
            => (currentTrackIndex = prev.cur /\ ~isPlaying)

\* as many signals as there are tracks were handled from the first track
\* on: playback is inactive at the last index
C23_Witness ==
    /\ IsEndedOp(lastOp) /\ playMode = "none" /\ endRun.active
    /\ Len(playlist) = MaxLen /\ endRun.n = MaxLen
    /\ currentTrackIndex = MaxLen - 1 /\ prev.playing /\ ~isPlaying

\* C24: in mode "none" with exactly one track and position 0, playNext
\* keeps the position at 0 and marks playback active; it does not set the
\* position to null.
C24_SingleTrackNoHalt ==
    (lastOp.op = "playNext" /\ prev.mode = "none"
        /\ Len(prev.playlist) = 1 /\ prev.cur = 0)
    => /\ currentTrackIndex = 0
       /\ isPlaying

\* playNext on the single, paused track has marked playback active
C24_Witness ==
    /\ lastOp.op = "playNext" /\ prev.mode = "none"
    /\ Len(prev.playlist) = 1 /\ prev.cur = 0 /\ ~prev.playing
    /\ currentTrackIndex = 0 /\ isPlaying

\* C25: playNext and playPrevious on an empty playlist leave the position,
\* the playback-active flag, the play mode and the shuffle history (and
\* the playlist) unchanged, in every play mode.
C25_EmptyPlaylistNoOp ==
    (lastOp.op \in {"playNext", "playPrevious"} /\ prev.playlist = <<>>)
    => Snapshot = prev

\* playNext ran on the empty playlist in shuffle mode
C25_Witness ==
    /\ lastOp.op = "playNext" /\ prev.playlist = <<>>
    /\ prev.mode = "shuffle" /\ Snapshot = prev

\* C26: in every reachable state with position null playback is marked
\* inactive.
C26_NoPositionNotPlaying == currentTrackIndex = NULL => ~isPlaying

\* removeVideo has removed the only track while it was playing
C26_Witness ==
    /\ lastOp.op = "removeVideo"
    /\ Len(prev.playlist) = 1 /\ prev.cur = 0 /\ prev.playing
    /\ playlist = <<>> /\ currentTrackIndex = NULL /\ ~isPlaying

\* the last call selected a track in shuffle mode: playNext on a non-empty
\* playlist, selectVideo with an index of the playlist, or playPrevious on
\* a non-empty playlist
SelectedInShuffle ==
    /\ prev.mode = "shuffle"
    /\ \/ (lastOp.op \in {"playNext", "playPrevious"} /\ Len(prev.playlist) > 0)
       \/ (lastOp.op = "selectVideo" /\ 0 <= lastOp.index
             /\ lastOp.index < Len(prev.playlist))

\* C27: in shuffle mode, right after playNext on a non-empty playlist and
\* after a successful selectVideo or playPrevious, the shuffle history is
\* the one-element list of the new position.
C27_HistoryIsCurrentOnly ==
    SelectedInShuffle => playedIndices = <<currentTrackIndex>>

\* playNext has drawn another track than the one in the history
C27_Witness ==
    /\ SelectedInShuffle /\ lastOp.op = "playNext"
    /\ Len(playlist) = MaxLen
    /\ prev.played = <<0>> /\ currentTrackIndex = MaxLen - 1
    /\ playedIndices = <<MaxLen - 1>>

\* C28: when the component mounts over entries that hold the text of a
\* non-empty playlist, the playlist entry is the same in every state
\* between the load effect and the save effects; the save effect of the
\* first render does not write the empty default playlist over it.
C28_MountKeepsStoredPlaylist ==
    (lastOp.op = "mount" /\ HasPlaylistText(lastOp.sto)
        /\ JSONparses(lastOp.sto.playlist[1])
        /\ Len(JSONparse(lastOp.sto.playlist[1])) > 0)
    => storage.playlist = lastOp.sto.playlist

\* C29: removeVideo of a track behind the selected one, or of any track
\* while the position is null, leaves the position and the playback-active
\* flag unchanged; removeVideo of an id no track has leaves the whole state
\* unchanged.
C29_RemoveElsewhere ==
    /\ (prev.cur # NULL /\ \E i \in (prev.cur + 1)..(Len(prev.playlist) - 1) : RemovedAt(i))
         => (currentTrackIndex = prev.cur /\ isPlaying = prev.playing)
    /\ (prev.cur = NULL /\ \E i \in 0..(Len(prev.playlist) - 1) : RemovedAt(i))
         => (currentTrackIndex = NULL /\ isPlaying = prev.playing)
    /\ (lastOp.op = "removeVideo" /\ lastOp.id \notin Ids(prev.playlist))
         => Snapshot = prev

\* the last addVideo passed its checks on a playlist that was not empty or
\* while a track was selected
AddedToExisting ==
    /\ lastOp.op = "addVideo" /\ ~AddRejected
    /\ (Len(prev.playlist) > 0 \/ prev.cur # NULL)

\* C30: a successful addVideo on a non-empty playlist, or while a track is
\* selected, appends the new track, keeps the tracks there were in their
\* order and leaves the position, the playback-active flag, the play mode
\* and the shuffle history unchanged.
C30_AddAppendsOnly ==
    AddedToExisting
    => /\ Len(playlist) = Len(prev.playlist) + 1
       /\ SubSeq(playlist, 1, Len(prev.playlist)) = prev.playlist
       /\ playlist[Len(playlist)].id = lastOp.id
       /\ playlist[Len(playlist)].youtubeId = extractVideoId(lastOp.url)
       /\ playlist[Len(playlist)].title = Trim(lastOp.title)
       /\ currentTrackIndex = prev.cur
       /\ isPlaying = prev.playing
       /\ playMode = prev.mode
       /\ playedIndices = prev.played

\* a track was added to a playlist halted at position null, which stays
\* null
C30_Witness ==
    /\ AddedToExisting
    /\ Len(prev.playlist) = 2 /\ prev.cur = NULL
    /\ Len(playlist) = 3 /\ currentTrackIndex = NULL /\ ~isPlaying

====
